---- MODULE Spec2Model ----
(***************************************************************************)
(* PixelView: the view transform engine of PixelViewApp (src/src/app.cpp,  *)
(* the class declaration in src/unnamed/part_003, the configuration file   *)
(* reader and writer in src/unnamed/part_004, the configuration window in  *)
(* src/src/app_ui.cpp).                                                    *)
(*                                                                         *)
(* The program computes with C++ doubles.  The model computes with exact   *)
(* rationals <<numerator, denominator>> (denominator > 0, lowest terms),   *)
(* so every comparison, floor and ceil is the one the real-number formula  *)
(* of the source gives.  Two places need values no small rational holds:   *)
(* the zoom step sqrt(2) (zoomStepSize below) and the repeated *0.125 of   *)
(* the transition easing (fixed point with FracBits fractional bits).      *)
(***************************************************************************)
EXTENDS Integers, Sequences, FiniteSets, TLC

VARIABLES
    app,          \* the PixelViewApp object: one record field per data member
    op,           \* the event handler (or main-loop step) that ran last, with its arguments
    cfgFile,      \* the .pxv file next to the current image: <<>> or <<its key/value record>>
    animFrames,   \* easing steps taken since the last input
    animStart,    \* m_currentArea when the last input was handled
    inputs        \* input events handled since the program was started

vars == <<app, op, cfgFile, animFrames, animStart, inputs>>

----------------------------------------------------------------------------
(* Rational arithmetic *)

RECURSIVE Gcd(_, _)
Gcd(a, b) == IF b = 0 THEN a ELSE Gcd(b, a % b)

IAbs(n) == IF n < 0 THEN -n ELSE n

\* n/d in lowest terms with a positive denominator, g = gcd(|n|, |d|)
QNorm(n, d, g) ==
    IF d < 0 THEN <<(-n) \div g, (-d) \div g>> ELSE <<n \div g, d \div g>>
Q(n, d) == QNorm(n, d, Gcd(IAbs(n), IAbs(d)))

QI(n) == <<n, 1>>
Zero == <<0, 1>>
One  == <<1, 1>>
Half == <<1, 2>>

QNeg(a) == <<-a[1], a[2]>>
QAddOver(a, b, g) ==
    Q(a[1] * (b[2] \div g) + b[1] * (a[2] \div g), (a[2] \div g) * b[2])
QAdd(a, b) == QAddOver(a, b, Gcd(a[2], b[2]))
QSub(a, b) == QAdd(a, QNeg(b))
QMulOver(a, b, g1, g2) ==
    <<(a[1] \div g1) * (b[1] \div g2), (a[2] \div g2) * (b[2] \div g1)>>
QMul(a, b) ==
    IF a[1] = 0 \/ b[1] = 0 THEN Zero
    ELSE QMulOver(a, b, Gcd(IAbs(a[1]), b[2]), Gcd(IAbs(b[1]), a[2]))
QInv(a) == IF a[1] > 0 THEN <<a[2], a[1]>> ELSE <<-a[2], -a[1]>>
QDiv(a, b) == QMul(a, QInv(b))
\* a < b: by cross-multiplication where the products are small, else by
\* comparing the integer parts and then the inverted fractional parts
RECURSIVE QLt(_, _)
QLtParts(a, b, fa, fb, ra, rb) ==
    IF fa # fb THEN fa < fb
    ELSE IF ra = 0 THEN rb > 0
    ELSE IF rb = 0 THEN FALSE
    ELSE QLt(<<b[2], rb>>, <<a[2], ra>>)
QLt(a, b) ==
    IF IAbs(a[1]) < 30000 /\ IAbs(b[1]) < 30000 /\ a[2] < 30000 /\ b[2] < 30000
    THEN a[1] * b[2] < b[1] * a[2]
    ELSE QLtParts(a, b, a[1] \div a[2], b[1] \div b[2], a[1] % a[2], b[1] % b[2])
QLe(a, b) == ~QLt(b, a)
QMin(a, b) == IF QLt(b, a) THEN b ELSE a      \* std::min(a, b)
QMax(a, b) == IF QLt(a, b) THEN b ELSE a      \* std::max(a, b)
QAbs(a) == <<IAbs(a[1]), a[2]>>
QFloor(a) == a[1] \div a[2]                   \* std::floor, as an integer
QCeil(a) == -((-a[1]) \div a[2])              \* std::ceil, as an integer

----------------------------------------------------------------------------
(* Program constants (src/src/app.cpp:50-60) *)

\* zoomStepSize = 1.4142135623730951: the program's rational stand-in for
\* sqrt(2); the model's is 99/70 (99^2 = 2 * 70^2 + 1).
zoomStepSize == <<99, 70>>
\* variant: half the easing speed
animationSpeedHalved == <<1, 16>>
animationSpeed == <<1, 8>>
cursorPanSpeedSlow == 8
cursorPanSpeedNormal == 64
cursorPanSpeedFast == 512

vmFree == "vmFree"
vmFit == "vmFit"
vmFill == "vmFill"
vmPanel == "vmPanel"
ViewModes == {vmFree, vmFit, vmFill, vmPanel}

stNone == "stNone"
stSuccess == "stSuccess"
stError == "stError"

\* The data members of PixelViewApp with their default member initializers.
FreshApp ==
    [ m_escapePressed |-> FALSE,
      m_active        |-> TRUE,
      m_panning       |-> FALSE,
      m_panX          |-> Zero,
      m_panY          |-> Zero,
      m_animate       |-> FALSE,
      m_imgWidth      |-> 0,
      m_imgHeight     |-> 0,
      m_statusType    |-> stNone,
      m_fileName      |-> 0,
      m_viewMode      |-> vmFit,
      m_prevViewMode  |-> vmFit,
      m_integer       |-> FALSE,
      m_maxCrop       |-> Zero,
      m_aspect        |-> One,
      m_zoom          |-> One,
      m_x0            |-> Zero,
      m_y0            |-> Zero,
      m_scrollSpeed   |-> QI(4),
      m_screenWidth   |-> 0,
      m_screenHeight  |-> 0,
      m_viewWidth     |-> Zero,
      m_viewHeight    |-> Zero,
      m_minX0         |-> Zero,
      m_minY0         |-> Zero,
      m_scrollX       |-> 0,
      m_scrollY       |-> 0,
      m_minZoom       |-> <<1, 16>>,
      m_currentArea   |-> <<QI(2), QI(-2), QI(-1), QI(1)>>,
      m_targetArea    |-> <<QI(2), QI(-2), QI(-1), QI(1)>>,
      m_panelAreas    |-> <<>> ]

isZoomed(s) == QLt(s.m_zoom, <<9999, 10000>>) \/ QLt(<<10001, 10000>>, s.m_zoom)
isSquarePixels(s) == QLe(<<9999, 10000>>, s.m_aspect) /\ QLe(s.m_aspect, <<10001, 10000>>)
canDoIntegerZoom(s) == isSquarePixels(s) /\ s.m_viewMode # vmPanel
canUsePanelMode(s) == s.m_panelAreas # <<>>
wantIntegerZoom(s) == s.m_integer /\ canDoIntegerZoom(s)
isScrolling(s) == s.m_scrollX # 0 \/ s.m_scrollY # 0
imgValid(s) == s.m_imgWidth > 0 /\ s.m_imgHeight > 0

----------------------------------------------------------------------------
(* setArea: screen rectangle -> normalized device coordinates *)

\* k * (a / screen) + c in doubles.  For screen = 0 the quotient is not
\* finite: <<1, 0>> stands for +inf, <<-1, 0>> for -inf and <<0, 0>> for NaN.
AreaTerm(k, a, screen, c) ==
    IF screen = 0
    THEN <<(IF a[1] = 0 THEN 0 ELSE IF (k > 0) = (a[1] > 0) THEN 1 ELSE -1), 0>>
    ELSE QAdd(QMul(QI(k), QDiv(a, QI(screen))), QI(c))

setArea(s, x0, y0, vw, vh) ==
    << AreaTerm(2, vw, s.m_screenWidth, 0),
       AreaTerm(-2, vh, s.m_screenHeight, 0),
       AreaTerm(2, x0, s.m_screenWidth, -1),
       AreaTerm(-2, y0, s.m_screenHeight, 1) >>

----------------------------------------------------------------------------
(* computePanelGeometry *)

\* The lambda updateViewSize: view size for panelCount strips, and whether
\* they still fit next to each other along the minor axis.
PanelViewMajor(dispMajor, panelCount) == QMul(dispMajor, QI(panelCount))
PanelViewMinor(dispMajor, rawMajor, rawMinor, panelCount) ==
    QDiv(QMul(PanelViewMajor(dispMajor, panelCount), rawMinor), rawMajor)
updateViewSize(dispMajor, dispMinor, rawMajor, rawMinor, panelCount) ==
    \* with no image loaded rawMajor = rawMinor = 0, viewMinor is 0/0 = NaN
    \* and the comparison is false
    /\ rawMajor[1] # 0
    /\ QLt(QMul(PanelViewMinor(dispMajor, rawMajor, rawMinor, panelCount), QI(panelCount)),
           dispMinor)

\* The model follows the probing loop up to MaxProbe strips.
MaxProbe == 24

\* while (updateViewSize()) { ++panelCount; }  -- the first count that fails,
\* or MaxProbe when the loop is still running by then
RECURSIVE PanelProbe(_, _, _, _, _)
PanelProbe(dispMajor, dispMinor, rawMajor, rawMinor, panelCount) ==
    IF panelCount < MaxProbe
       /\ updateViewSize(dispMajor, dispMinor, rawMajor, rawMinor, panelCount)
    THEN PanelProbe(dispMajor, dispMinor, rawMajor, rawMinor, panelCount + 1)
    ELSE panelCount

\* variant: a single strip counts as a panel layout
PanelUnavailableBelowTwo(probed) == probed <= 1

\* if (panelCount <= 2) return;  -- panel mode unavailable
PanelUnavailable(probed) == probed <= 2

PanelWide(s) ==
    QLt(QMul(QI(s.m_imgHeight), QI(s.m_screenWidth)),
        QMul(QMul(QI(s.m_imgWidth), s.m_aspect), QI(s.m_screenHeight)))

\* one panel from its view size, the step along the major axis and the gap
\* along the minor axis: <<posMajor, posMinor, viewMajor, viewMinor>>
PanelRectAt(i, viewMajor, viewMinor, step, gap) ==
    << QMul(QI(i), step),
       QAdd(gap, QMul(QI(i), QAdd(viewMinor, gap))),
       viewMajor,
       viewMinor >>

\* variant: the step along the major axis is the overhang shared out over
\* panelCount strips instead of panelCount - 1
PanelRectStepPerPanel(dispMajor, dispMinor, panelCount, i, viewMajor, viewMinor, gapCount) ==
    PanelRectAt(i, viewMajor, viewMinor,
                QDiv(QSub(dispMajor, viewMajor), QI(panelCount)),
                QDiv(QSub(dispMinor, QMul(QI(panelCount), viewMinor)), QI(gapCount)))

\* step and gap for panelCount strips, the free space on the minor axis
\* being shared out in gapCount parts
PanelRectOf(dispMajor, dispMinor, panelCount, i, viewMajor, viewMinor, gapCount) ==
    PanelRectAt(i, viewMajor, viewMinor,
                QDiv(QSub(dispMajor, viewMajor), QI(panelCount - 1)),
                QDiv(QSub(dispMinor, QMul(QI(panelCount), viewMinor)), QI(gapCount)))

\* variant: the free space is shared out between the strips only, with no
\* margin before the first and after the last
PanelRectNoMargin(dispMajor, dispMinor, rawMajor, rawMinor, panelCount, i) ==
    PanelRectOf(dispMajor, dispMinor, panelCount, i,
                PanelViewMajor(dispMajor, panelCount),
                PanelViewMinor(dispMajor, rawMajor, rawMinor, panelCount),
                panelCount - 1)

\* The rectangle of panel i in screen pixels: <<posMajor, posMinor, viewMajor, viewMinor>>.
PanelRect(dispMajor, dispMinor, rawMajor, rawMinor, panelCount, i) ==
    PanelRectOf(dispMajor, dispMinor, panelCount, i,
                PanelViewMajor(dispMajor, panelCount),
                PanelViewMinor(dispMajor, rawMajor, rawMinor, panelCount),
                panelCount + 1)

\* m_panelAreas.push_back(setArea(...)): the major axis is x for a wide image
PanelArea(s, wide, r) ==
    IF wide THEN setArea(s, r[1], r[2], r[3], r[4])
    ELSE setArea(s, r[2], r[1], r[4], r[3])

\* the panel list for the count the probe stopped at; while the loop runs
\* the list is as m_panelAreas.clear() left it
PanelLayout(s, wide, dispMajor, dispMinor, rawMajor, rawMinor, probed) ==
    IF probed >= MaxProbe \/ PanelUnavailable(probed)
    THEN [s EXCEPT !.m_panelAreas = <<>>]
    ELSE [s EXCEPT !.m_panelAreas =
             [k \in 1..(probed - 1) |->
                 PanelArea(s, wide, PanelRect(dispMajor, dispMinor, rawMajor, rawMinor,
                                              probed - 1, k - 1))]]

\* the probe along the axes picked by the orientation
PanelAxes(s, wide, dispMajor, dispMinor, rawMajor, rawMinor) ==
    PanelLayout(s, wide, dispMajor, dispMinor, rawMajor, rawMinor,
                PanelProbe(dispMajor, dispMinor, rawMajor, rawMinor, 1))

\* the axes turned "such that it looks as if we're always in wide mode"
computePanelGeometry(s) ==
    PanelAxes(s, PanelWide(s),
              IF PanelWide(s) THEN QI(s.m_screenWidth) ELSE QI(s.m_screenHeight),
              IF PanelWide(s) THEN QI(s.m_screenHeight) ELSE QI(s.m_screenWidth),
              IF PanelWide(s) THEN QMul(QI(s.m_imgWidth), s.m_aspect) ELSE QI(s.m_imgHeight),
              IF PanelWide(s) THEN QI(s.m_imgHeight) ELSE QMul(QI(s.m_imgWidth), s.m_aspect))

----------------------------------------------------------------------------
(* updateView *)

\* minimum zoom: like autofit, never above 1x, an integer reciprocal in integer mode
MinZoomOf(isInt, fit) ==
    IF QLe(One, fit) THEN One
    ELSE IF fit[1] = 0 THEN Zero       \* 1.0 / std::ceil(1.0 / 0.0) = 0
    ELSE IF isInt THEN QInv(QI(QCeil(QInv(fit))))
    ELSE fit

\* a factor z >= 1 and intZoom = floor(z + rounding): the integer in integer
\* mode or when z is within 0.001 of it
SnapFactor(z, isInt, rounding) ==
    IF isInt \/ QLt(QAbs(QSub(z, QI(QFloor(QAdd(z, rounding))))), <<1, 1000>>)
    THEN QI(QFloor(QAdd(z, rounding)))
    ELSE z

\* variant: only the snap to a nearby integer, no rounding in integer mode
SnapZoomNearOnly(zoom, isInt, autofit) ==
    IF QLt(zoom, One)
    THEN QInv(SnapFactor(QInv(zoom), FALSE, Half))
    ELSE SnapFactor(zoom, FALSE, Half)

\* variant: integer mode rounds to the integer above, intZoom = floor(z + 1)
SnapZoomAbove(zoom, isInt, autofit) ==
    IF QLt(zoom, One)
    THEN QInv(SnapFactor(QInv(zoom), isInt, IF isInt THEN One ELSE Half))
    ELSE SnapFactor(zoom, isInt, IF isInt THEN One ELSE Half)

\* integer zooming (app.cpp:949-959)
SnapZoom(zoom, isInt, autofit) ==
    IF zoom[1] = 0 THEN Zero           \* 1/0 = inf is kept or floored to inf, 1/inf = 0
    ELSE IF QLt(zoom, One)
    THEN QInv(SnapFactor(QInv(zoom), isInt, IF isInt /\ autofit THEN <<999, 1000>> ELSE Half))
    ELSE SnapFactor(zoom, isInt, IF isInt /\ autofit THEN Zero ELSE Half)

\* the origin for a given minPos, clamped or not
constrainTo(pos, viewSize, screenSize, autofit, minPos, clamp) ==
    IF autofit \/ QLe(Zero, minPos)
    THEN <<QMul(QSub(screenSize, viewSize), Half), minPos>>
    ELSE IF clamp THEN <<QMin(Zero, QMax(minPos, pos)), minPos>>
    ELSE <<pos, minPos>>

\* variant: the origin is centred where it has to be, but never clamped
constrainUnclamped(pos, viewSize, screenSize, autofit) ==
    constrainTo(pos, viewSize, screenSize, autofit,
                QMin(Zero, QSub(screenSize, viewSize)), FALSE)

\* the lambda constrain: <<pos, minPos>>
constrain(pos, viewSize, screenSize, autofit) ==
    constrainTo(pos, viewSize, screenSize, autofit,
                QMin(Zero, QSub(screenSize, viewSize)), TRUE)

\* variant: the pivot is always taken to be the middle of the view
PivotRelCentre(pivot, pos, viewSize) == Half

\* pivot position relative to the previous view rectangle
PivotRel(pivot, pos, viewSize) ==
    IF QLt(One, viewSize) THEN QDiv(QSub(pivot, pos), viewSize) ELSE Half

\* the end of updateView: the members it assigns (app.cpp:974-990);
\* cx and cy are <<pos, minPos>> of the two axes
updateViewStore(s, mode, animate, minZoom, zoom, viewWidth, viewHeight, cx, cy) ==
    [s EXCEPT !.m_statusType = stNone,
              !.m_viewMode = mode,
              !.m_prevViewMode = mode,
              !.m_animate = animate,
              !.m_minZoom = minZoom,
              !.m_zoom = zoom,
              !.m_viewWidth = viewWidth,
              !.m_viewHeight = viewHeight,
              !.m_x0 = cx[1],
              !.m_minX0 = cx[2],
              !.m_y0 = cy[1],
              !.m_minY0 = cy[2],
              !.m_targetArea = setArea(s, QI(QFloor(cx[1])), QI(QFloor(cy[1])),
                                       viewWidth, viewHeight)]

\* the origin: from the pivot if there is one, then constrained (app.cpp:965-984)
updateViewOrigin(s, usePivot, pivotX, pivotY, mode, animate, autofit, minZoom, zoom, viewWidth, viewHeight) ==
    updateViewStore(s, mode, animate, minZoom, zoom, viewWidth, viewHeight,
        constrain(IF usePivot
                  THEN QSub(pivotX, QMul(PivotRel(pivotX, s.m_x0, s.m_viewWidth), viewWidth))
                  ELSE s.m_x0,
                  viewWidth, QI(s.m_screenWidth), autofit),
        constrain(IF usePivot
                  THEN QSub(pivotY, QMul(PivotRel(pivotY, s.m_y0, s.m_viewHeight), viewHeight))
                  ELSE s.m_y0,
                  viewHeight, QI(s.m_screenHeight), autofit))

\* the view size for the final zoom (app.cpp:961-963)
updateViewExtent(s, usePivot, pivotX, pivotY, mode, animate, autofit, rawWidth, rawHeight, minZoom, zoom) ==
    updateViewOrigin(s, usePivot, pivotX, pivotY, mode, animate, autofit,
                     minZoom, zoom, QMul(rawWidth, zoom), QMul(rawHeight, zoom))

\* the zoom: clamped to minZoom, then snapped (app.cpp:944-959)
updateViewZoom(s, usePivot, pivotX, pivotY, mode, animate, isInt, autofit, rawWidth, rawHeight, minZoom, zoomA) ==
    updateViewExtent(s, usePivot, pivotX, pivotY, mode, animate, autofit,
                     rawWidth, rawHeight, minZoom,
                     SnapZoom(QMax(zoomA, minZoom), isInt, autofit))

\* variant: Fill mode takes the smaller of the two factors, as Fit mode does
AutofitZoomSmaller(mode, zoomX, zoomY) == QMin(zoomX, zoomY)

\* the autofit zoom for the window sw x sh
AutofitZoom(mode, zoomX, zoomY) ==
    IF mode = vmFill THEN QMax(zoomX, zoomY) ELSE QMin(zoomX, zoomY)

\* autozoom and minimum zoom (app.cpp:925-943)
updateViewFit(s, usePivot, pivotX, pivotY, mode, animate, isInt, autofit, rawWidth, rawHeight, sw, sh, crop) ==
    updateViewZoom(s, usePivot, pivotX, pivotY, mode, animate, isInt, autofit,
                   rawWidth, rawHeight,
                   MinZoomOf(isInt, QMin(QDiv(sw, rawWidth), QDiv(sh, rawHeight))),
                   IF ~autofit THEN s.m_zoom
                   ELSE AutofitZoom(mode,
                            QDiv(sw, IF isInt THEN QMul(rawWidth, crop) ELSE rawWidth),
                            QDiv(sh, IF isInt THEN QMul(rawHeight, crop) ELSE rawHeight)))

\* the effective mode being known: raw image size and the mode's flags
\* (app.cpp:912-923)
updateViewMode(s, usePivot, pivotX, pivotY, mode) ==
    updateViewFit(s, usePivot, pivotX, pivotY, mode,
                  IF mode # vmPanel /\ s.m_prevViewMode = vmPanel THEN FALSE ELSE s.m_animate,
                  s.m_integer /\ isSquarePixels(s) /\ mode # vmPanel,
                  mode \in {vmFit, vmFill},
                  QMul(QI(s.m_imgWidth), QMax(s.m_aspect, One)),
                  QDiv(QI(s.m_imgHeight), QMin(s.m_aspect, One)),
                  QI(s.m_screenWidth), QI(s.m_screenHeight),
                  QSub(One, s.m_maxCrop))

\* updateView without the check of lines 900-902: Panel mode is kept as requested
updateViewKeepsPanel(s, usePivot, pivotX, pivotY) ==
    IF ~imgValid(s) THEN s ELSE updateViewMode(s, usePivot, pivotX, pivotY, s.m_viewMode)

updateView(s, usePivot, pivotX, pivotY) ==
    IF ~imgValid(s) THEN s
    ELSE updateViewMode(s, usePivot, pivotX, pivotY,
                        IF s.m_viewMode = vmPanel /\ ~canUsePanelMode(s)
                        THEN vmFree ELSE s.m_viewMode)

\* updateView(bool usePivot = true): the pivot is the screen centre
updateViewCenter(s, usePivot) ==
    updateView(s, usePivot, QMul(QI(s.m_screenWidth), Half), QMul(QI(s.m_screenHeight), Half))

----------------------------------------------------------------------------
(* viewCfg: the string-controlled view configuration helper *)

RECURSIVE viewCfgFlags(_, _)
viewCfgFlags(s, actions) ==
    IF actions = <<>> THEN s
    ELSE LET c == Head(actions)
             t == IF c = "f" THEN [s EXCEPT !.m_viewMode = vmFree]
                  ELSE IF c = "a" THEN [s EXCEPT !.m_animate = TRUE]
                  ELSE IF c = "x" THEN [s EXCEPT !.m_animate = FALSE]
                  ELSE IF c = "s" THEN [s EXCEPT !.m_scrollX = 0, !.m_scrollY = 0]
                  ELSE s
         IN  viewCfgFlags(t, Tail(actions))

viewCfg(s, actions) ==
    IF \E i \in 1..Len(actions) : actions[i] = "n"
    THEN viewCfgFlags(s, actions)
    ELSE updateViewCenter(viewCfgFlags(s, actions), TRUE)

----------------------------------------------------------------------------
(* changeZoom *)

RECURSIVE Pow2(_)
Pow2(k) == IF k = 0 THEN One ELSE IF k > 0 THEN QMul(QI(2), Pow2(k - 1)) ELSE QMul(Half, Pow2(k + 1))

\* std::pow(zoomStepSize, k) for an integer k.  Even powers of the double
\* 1.4142135623730951 are powers of two to within 1e-15.
PowStep(k) == IF k % 2 = 0 THEN Pow2(k \div 2) ELSE QMul(Pow2(k \div 2), zoomStepSize)

\* zoom = m * 2^e with 1 <= m < 2
RECURSIVE Log2Floor(_)
Log2Floor(z) ==
    IF QLt(z, One) THEN Log2Floor(QMul(z, QI(2))) - 1
    ELSE IF QLe(QI(2), z) THEN Log2Floor(QMul(z, Half)) + 1
    ELSE 0

\* zstep = std::log(zoom) / std::log(zoomStepSize) = 2 * log2(zoom), read off
\* by comparing the mantissa m with 2^(t/2) for t = 1/8, 1/2, 7/8, 1, 9/8,
\* 3/2, 15/8 (to four decimals).  The result is <<std::floor(zstep), istep,
\* whether |zstep - istep| < 0.125>>.
LogStepOf(e, m) ==
    << 2 * e + (IF QLt(m, <<14142, 10000>>) THEN 0 ELSE 1),
       2 * e + (IF QLt(m, <<11892, 10000>>) THEN 0
                ELSE IF QLt(m, <<16818, 10000>>) THEN 1 ELSE 2),
       \/ QLt(m, <<10443, 10000>>)
       \/ (QLt(<<13543, 10000>>, m) /\ QLt(m, <<14768, 10000>>))
       \/ QLt(<<19152, 10000>>, m) >>
LogStep(zoom) == LogStepOf(Log2Floor(zoom), QDiv(zoom, Pow2(Log2Floor(zoom))))

\* "go to the closest stop in the relevant direction; if we're already
\* pretty close to a stop, just go one further"
\* stop = <<std::floor(zstep), istep, whether |zstep - istep| < 0.125>>
NextStop(stop, zdir) == IF stop[3] THEN stop[2] + zdir ELSE stop[1] + zdir

\* integer zooming: zstep = zoom - 1 or 1 - 1/zoom, and the zoom of a stop
IntegerZoomStep(zoom) ==
    IF QLe(One, zoom) THEN QSub(zoom, One) ELSE QSub(One, QInv(zoom))
IntegerStopZoom(stop) == IF stop >= 0 THEN QI(stop + 1) ELSE QInv(QI(1 - stop))
IntegerStep(zstep, istep) ==
    <<QFloor(zstep), istep, QLt(QAbs(QSub(zstep, QI(istep))), <<1, 8>>)>>

\* the new m_zoom of changeZoom, before updateView
ZoomStep(s, zdir) ==
    IF wantIntegerZoom(s)
    THEN IntegerStopZoom(NextStop(IntegerStep(IntegerZoomStep(s.m_zoom),
                                              QFloor(QAdd(IntegerZoomStep(s.m_zoom), Half))),
                                  zdir))
    ELSE PowStep(NextStop(LogStep(s.m_zoom), zdir))

changeZoom(s, direction, pivotX, pivotY) ==
    IF QLt(QAbs(direction), <<1, 100>>) THEN s
    ELSE updateView(viewCfg([s EXCEPT !.m_zoom =
                                 ZoomStep(s, IF QLt(direction, Zero) THEN -1 ELSE 1)],
                            <<"f", "s", "a", "n">>),
                    TRUE, pivotX, pivotY)

----------------------------------------------------------------------------
(* startScroll, cursorPan, cycleViewMode, cycleTopView *)

\* the body of the loop for one axis: step = <<dx, dy>>, dist the distance
\* left that way; `ties` says whether a direction as far as the best so far
\* replaces it
ScrollProbeAxis(step, best, minPos, dist, ties) ==
    IF QLe(Zero, minPos) THEN best
    ELSE IF QLt(best[1], dist) \/ (ties /\ QLt(Zero, dist) /\ QLe(best[1], dist))
         THEN <<dist, step[1], step[2]>>
    ELSE best

\* variant: a direction as far as the best so far replaces it
ScrollProbeLastWins(s, dir, best) ==
    IF dir \in {1, 3}
    THEN ScrollProbeAxis(<<IF dir = 3 THEN -1 ELSE 1, 0>>, best, s.m_minX0,
                         IF dir = 3 THEN QNeg(s.m_x0) ELSE QSub(s.m_x0, s.m_minX0), TRUE)
    ELSE ScrollProbeAxis(<<0, IF dir = 2 THEN -1 ELSE 1>>, best, s.m_minY0,
                         IF dir = 2 THEN QNeg(s.m_y0) ELSE QSub(s.m_y0, s.m_minY0), TRUE)

\* one probe of the direction loop: dir = 0 down, 1 right, 2 up, 3 left;
\* best = <<longestDist, scrollX, scrollY>>
ScrollProbe(s, dir, best) ==
    IF dir \in {1, 3}
    THEN ScrollProbeAxis(<<IF dir = 3 THEN -1 ELSE 1, 0>>, best, s.m_minX0,
                         IF dir = 3 THEN QNeg(s.m_x0) ELSE QSub(s.m_x0, s.m_minX0), FALSE)
    ELSE ScrollProbeAxis(<<0, IF dir = 2 THEN -1 ELSE 1>>, best, s.m_minY0,
                         IF dir = 2 THEN QNeg(s.m_y0) ELSE QSub(s.m_y0, s.m_minY0), FALSE)

\* <<scrollX, scrollY>> of the best probe
ScrollDirOf(best) == <<best[2], best[3]>>

AutoScrollDir(s) ==
    ScrollDirOf(ScrollProbe(s, 3,
                ScrollProbe(s, 2,
                ScrollProbe(s, 1,
                ScrollProbe(s, 0, <<Zero, s.m_scrollX, s.m_scrollY>>)))))

\* m_scrollX and m_scrollY set to a direction <<dx, dy>>
startScrollSet(t, dir) == [t EXCEPT !.m_scrollX = dir[1], !.m_scrollY = dir[2]]

\* if (isScrolling()) { viewCfg("fx"); }
startScrollRun(u) == IF isScrolling(u) THEN viewCfg(u, <<"f", "x">>) ELSE u

\* startScroll after the speed is set
startScrollDir(t, dx, dy) ==
    IF t.m_viewMode = vmPanel THEN [t EXCEPT !.m_scrollX = 0, !.m_scrollY = 0]
    ELSE startScrollRun(IF dx # 0 \/ dy # 0 THEN startScrollSet(t, <<dx, dy>>)
                        ELSE IF ~isScrolling(t) THEN startScrollSet(t, AutoScrollDir(t))
                        ELSE t)

startScroll(s, speed, dx, dy) ==
    startScrollDir(IF speed # Zero THEN [s EXCEPT !.m_scrollSpeed = speed] ELSE s, dx, dy)

\* mods: "none", "shift", "ctrl", "alt"
\* double speed = (mods & GLFW_MOD_CONTROL) ? ... : cursorPanSpeedNormal
cursorPanSpeed(mods) ==
    IF mods = "ctrl" THEN cursorPanSpeedFast
    ELSE IF mods = "shift" THEN cursorPanSpeedSlow
    ELSE cursorPanSpeedNormal

cursorPan(s, dx, dy, mods) ==
    IF mods = "alt" THEN startScroll(s, Zero, dx, dy)
    ELSE viewCfg([s EXCEPT !.m_x0 = QSub(QI(QFloor(s.m_x0)), QI(dx * cursorPanSpeed(mods))),
                           !.m_y0 = QSub(QI(QFloor(s.m_y0)), QI(dy * cursorPanSpeed(mods)))],
                 <<"f", "s", "a">>)

cycleViewMode(s, with1x) ==
    viewCfg(IF with1x /\ (s.m_viewMode = vmFill \/ isZoomed(s))
            THEN [s EXCEPT !.m_zoom = One, !.m_viewMode = vmFree]
            ELSE [s EXCEPT !.m_viewMode = IF s.m_viewMode = vmFit THEN vmFill ELSE vmFit],
            <<"s", "a">>)

cycleTopView(s) ==
    updateViewCenter(
        viewCfg([(IF isZoomed(s) THEN [s EXCEPT !.m_zoom = One]
                  ELSE updateViewCenter([s EXCEPT !.m_viewMode = vmFill], TRUE))
                    EXCEPT !.m_x0 = Zero, !.m_y0 = Zero],
                <<"f", "s", "a", "n">>),
        FALSE)

----------------------------------------------------------------------------
(* The configuration file (.pxv): printf on the way out, strtod on the way in *)

RECURSIVE Pow10(_)
Pow10(k) == IF k = 0 THEN 1 ELSE 10 * Pow10(k - 1)

\* <<floor(n * base^k / d), remainder>> by long division, one digit at a time
RECURSIVE ScaledFloor(_, _, _, _)
ScaledFloorNext(p, d, base) == <<p[1] * base + (p[2] * base) \div d, (p[2] * base) % d>>
ScaledFloor(n, d, k, base) ==
    IF k = 0 THEN <<n \div d, n % d>>
    ELSE ScaledFloorNext(ScaledFloor(n, d, k - 1, base), d, base)

\* the integer nearest to a * 10^k (ties to even, as printf rounds an exact tie), a >= 0
RoundUp(a, p) ==
    IF 2 * p[2] > a[2] \/ (2 * p[2] = a[2] /\ p[1] % 2 = 1) THEN p[1] + 1 ELSE p[1]
RoundScaled(a, k) == RoundUp(a, ScaledFloor(a[1], a[2], k, 10))

\* the number that "%.<k>f" prints for a >= 0, read back by strtod
FormatF(a, k) == Q(RoundScaled(a, k), Pow10(k))

\* decimal exponent: 10^e <= a < 10^(e+1), a > 0
RECURSIVE Exp10(_)
Exp10(a) ==
    IF QLt(a, One) THEN Exp10(QMul(a, QI(10))) - 1
    ELSE IF QLe(QI(10), a) THEN Exp10(QDiv(a, QI(10))) + 1
    ELSE 0

\* the number that "%g" prints (six significant digits) for 0 < a < 10^6
FormatG(a) == FormatF(a, 5 - Exp10(a))

NoFile == <<>>
\* the slider position of an origin in percent, as saveConfig computes it
RelPercent(pos, minPos) ==
    QMin(QI(100), QMax(Zero, IF QLe(Zero, minPos) THEN QI(50)
                             ELSE QDiv(QMul(QI(100), pos), minPos)))

\* saveConfig(const char*): the lines written, as parsed values
ConfigText(s) ==
    [ aspect |-> IF ~isSquarePixels(s) THEN <<FormatG(s.m_aspect)>> ELSE <<>>,
      maxcrop |-> IF QLt(Zero, s.m_maxCrop) \/ (s.m_viewMode = vmFill /\ s.m_integer)
                  THEN <<FormatF(QMul(s.m_maxCrop, QI(100)), 0)>> ELSE <<>>,
      mode |-> <<s.m_viewMode>>,
      integer |-> IF canDoIntegerZoom(s) THEN <<s.m_integer>> ELSE <<>>,
      zoom |-> IF s.m_viewMode = vmFree THEN <<FormatG(s.m_zoom)>> ELSE <<>>,
      relx |-> IF s.m_viewMode = vmFree THEN <<FormatF(RelPercent(s.m_x0, s.m_minX0), 1)>> ELSE <<>>,
      rely |-> IF s.m_viewMode = vmFree THEN <<FormatF(RelPercent(s.m_y0, s.m_minY0), 1)>> ELSE <<>>,
      scrollspeed |-> <<FormatF(s.m_scrollSpeed, 0)>> ]

\* the lambda needFloat(vmin, vmax) applied to a key that may be absent
needFloat(entry, vmin, vmax) ==
    entry # <<>> /\ QLe(vmin, entry[1]) /\ QLe(entry[1], vmax)

\* relX, relY: the value of the key in percent, -1 without a valid one
loadRel(entry) == IF needFloat(entry, Zero, QI(100)) THEN QMul(entry[1], <<1, 100>>) ELSE QI(-1)

\* the lines of the file c applied to the members, a member without a valid
\* line keeping its value
loadKeys(s, c) ==
    [s EXCEPT !.m_viewMode = IF c.mode # <<>> THEN c.mode[1] ELSE @,
              !.m_integer = IF c.integer # <<>> THEN c.integer[1] ELSE @,
              !.m_aspect = IF needFloat(c.aspect, <<1, 100>>, QI(100)) THEN c.aspect[1] ELSE @,
              !.m_maxCrop = IF needFloat(c.maxcrop, Zero, <<999, 10>>)
                            THEN QMul(c.maxcrop[1], <<1, 100>>) ELSE @,
              !.m_zoom = IF needFloat(c.zoom, <<1, 1000000>>, QI(1000000)) THEN c.zoom[1] ELSE @,
              !.m_scrollSpeed = IF needFloat(c.scrollspeed, Zero, QI(1000000000))
                                THEN c.scrollspeed[1] ELSE @]

\* loadConfig: <<the object with the keys applied, relX, relY>>
loadConfig(s, file) ==
    IF file = NoFile THEN <<s, QI(-1), QI(-1)>>
    ELSE <<loadKeys(s, file[1]), loadRel(file[1].relx), loadRel(file[1].rely)>>

----------------------------------------------------------------------------
(* loadImage, unloadImage, saveConfig *)

unloadImage(s) == [s EXCEPT !.m_imgWidth = 0, !.m_imgHeight = 0]

\* m_x0 = relX * m_minX0, m_y0 = relY * m_minY0 after the first updateView
loadImageOrigin(u, relX, relY) ==
    [u EXCEPT !.m_x0 = QMul(relX, u.m_minX0), !.m_y0 = QMul(relY, u.m_minY0)]

\* the view of the loaded image: s1 has the image and its panel geometry
loadImageView(s1, relX, relY) ==
    updateViewCenter(
        viewCfg(IF s1.m_viewMode = vmFree /\ QLe(Zero, relX) /\ QLe(Zero, relY)
                THEN loadImageOrigin(updateViewCenter(s1, TRUE), relX, relY)
                ELSE s1,
                <<"x", "s", "n">>),
        FALSE)

\* loadImage after loadConfig, lc = <<object, relX, relY>>
loadImageDecoded(lc, w, h, ok) ==
    IF ~ok THEN unloadImage([lc[1] EXCEPT !.m_statusType = stError])
    ELSE loadImageView(computePanelGeometry([lc[1] EXCEPT !.m_imgWidth = w, !.m_imgHeight = h]),
                       lc[2], lc[3])

\* loadImage(false) of m_fileName: `file` is the .pxv next to it, `w` x `h`
\* the decoded bitmap, `ok` whether decoding succeeded
loadImage(s, file, w, h, ok) ==
    loadImageDecoded(
        loadConfig([s EXCEPT !.m_imgWidth = 0, !.m_imgHeight = 0,
                             !.m_viewWidth = Zero, !.m_viewHeight = Zero,
                             !.m_statusType = stNone,
                             !.m_aspect = One,
                             !.m_viewMode = vmFit, !.m_prevViewMode = vmFit,
                             !.m_x0 = Zero, !.m_y0 = Zero],
                   file),
        w, h, ok)

\* saveConfig(): the status it reports, `written` being saveConfig(m_fileName)'s result
saveConfigStatus(s, written) ==
    IF s.m_fileName = 0 THEN s ELSE [s EXCEPT !.m_statusType = stSuccess]

----------------------------------------------------------------------------
(* One pass of the main loop: auto-scroll, then the smooth transition *)

\* the origin moved to <<x0, y0>>, and the scroll stopped on an axis that
\* left [minPos, 0]
autoScrollTo(s, x0, y0) ==
    [s EXCEPT !.m_x0 = x0, !.m_y0 = y0,
              !.m_scrollX = IF QLt(Zero, x0) \/ QLt(x0, s.m_minX0) THEN 0 ELSE @,
              !.m_scrollY = IF QLt(Zero, y0) \/ QLt(y0, s.m_minY0) THEN 0 ELSE @]

\* variant: the scroll advance without the updateView() that follows it
autoScrollNoUpdate(s) ==
    IF ~isScrolling(s) THEN s
    ELSE autoScrollTo(s, QSub(s.m_x0, QMul(QI(s.m_scrollX), s.m_scrollSpeed)),
                         QSub(s.m_y0, QMul(QI(s.m_scrollY), s.m_scrollSpeed)))

\* app.cpp:342-349
autoScroll(s) ==
    IF ~isScrolling(s) THEN s
    ELSE updateViewCenter(
             autoScrollTo(s, QSub(s.m_x0, QMul(QI(s.m_scrollX), s.m_scrollSpeed)),
                             QSub(s.m_y0, QMul(QI(s.m_scrollY), s.m_scrollSpeed))),
             TRUE)

\* Fractional bits kept by the easing arithmetic of the model.
FracBits == 16
RECURSIVE IPow2(_)
IPow2(k) == IF k = 0 THEN 1 ELSE 2 * IPow2(k - 1)
Unit == IPow2(FracBits)

\* a as a multiple of 1/Unit, rounded to nearest
FixRound(a, i, p) == i * Unit + p[1] + (IF 2 * p[2] >= a[2] THEN 1 ELSE 0)
Fix(a) == FixRound(a, QFloor(a), ScaledFloor(a[1] - QFloor(a) * a[2], a[2], FracBits, 2))

\* animationSpeed * diff for diff in multiples of 1/Unit, rounded to nearest
EaseDelta(diff) ==
    (2 * animationSpeed[1] * diff + animationSpeed[2]) \div (2 * animationSpeed[2])

\* the step for m_currentArea = cur and m_targetArea = tgt in multiples of
\* 1/Unit; sad is the sum of the absolute differences
applyTransitionStep(s, cur, tgt) ==
    [s EXCEPT !.m_currentArea = << Q(cur[1] + EaseDelta(tgt[1] - cur[1]), Unit),
                                   Q(cur[2] + EaseDelta(tgt[2] - cur[2]), Unit),
                                   Q(cur[3] + EaseDelta(tgt[3] - cur[3]), Unit),
                                   Q(cur[4] + EaseDelta(tgt[4] - cur[4]), Unit) >>,
              !.m_animate = ~(256 * (IAbs(tgt[1] - cur[1]) + IAbs(tgt[2] - cur[2])
                                       + IAbs(tgt[3] - cur[3]) + IAbs(tgt[4] - cur[4]))
                                < (IF tgt[1] < -tgt[2] THEN tgt[1] ELSE -tgt[2]))]

\* app.cpp:351-367
applyTransition(s) ==
    IF ~s.m_animate THEN [s EXCEPT !.m_currentArea = s.m_targetArea]
    ELSE applyTransitionStep(s, [i \in 1..4 |-> Fix(s.m_currentArea[i])],
                                [i \in 1..4 |-> Fix(s.m_targetArea[i])])

\* variant: the easing step ahead of the auto-scroll advance
frameEaseFirst(s) == autoScroll(applyTransition(s))

\* one pass of the main loop after the events: app.cpp:342-367
frame(s) == applyTransition(autoScroll(s))

----------------------------------------------------------------------------
(* The keyboard handler and the widgets of the configuration window *)

presetScrollSpeeds == <<1, 2, 3, 4, 6, 8, 12, 16, 24>>
DigitKeys == <<"1", "2", "3", "4", "5", "6", "7", "8", "9">>

\* handleKeyEvent for the keys that only touch the view state.  `key` is the
\* GLFW key name, `mods` one of "none", "shift", "ctrl", "alt".
handleKeyEvent(s, key, mods) ==
    LET t == IF key # "ESCAPE" THEN [s EXCEPT !.m_escapePressed = FALSE] ELSE s
    IN  CASE key = "Q" -> [t EXCEPT !.m_active = FALSE]
          [] key = "I" -> IF canDoIntegerZoom(t)
                          THEN viewCfg([t EXCEPT !.m_integer = ~t.m_integer], <<"a">>)
                          ELSE t
          [] key = "P" -> IF t.m_viewMode = vmPanel THEN viewCfg(t, <<"f", "s", "x">>)
                          ELSE viewCfg([t EXCEPT !.m_viewMode = vmPanel], <<"s", "x">>)
          [] key = "S" -> IF isScrolling(t) THEN [t EXCEPT !.m_scrollX = 0, !.m_scrollY = 0]
                          ELSE startScroll(t, Zero, 0, 0)
          [] key = "T" -> cycleTopView(t)
          [] key = "Z" -> cycleViewMode(t, TRUE)
          [] key = "F" -> cycleViewMode(t, FALSE)
          [] key = "KP_ADD" -> changeZoom(t, One, QMul(QI(t.m_screenWidth), Half),
                                          QMul(QI(t.m_screenHeight), Half))
          [] key = "KP_SUBTRACT" -> changeZoom(t, QI(-1), QMul(QI(t.m_screenWidth), Half),
                                               QMul(QI(t.m_screenHeight), Half))
          [] key = "LEFT" -> cursorPan(t, -1, 0, mods)
          [] key = "RIGHT" -> cursorPan(t, 1, 0, mods)
          [] key = "UP" -> cursorPan(t, 0, -1, mods)
          [] key = "DOWN" -> cursorPan(t, 0, 1, mods)
          [] key = "HOME" -> viewCfg([t EXCEPT !.m_x0 = Zero, !.m_y0 = Zero], <<"f", "s", "a">>)
          [] key = "END" -> viewCfg([t EXCEPT !.m_x0 = t.m_minX0, !.m_y0 = t.m_minY0],
                                    <<"f", "s", "a">>)
          [] key = "ESCAPE" -> IF t.m_escapePressed THEN [t EXCEPT !.m_active = FALSE]
                               ELSE viewCfg([t EXCEPT !.m_escapePressed = TRUE,
                                                      !.m_scrollX = 0, !.m_scrollY = 0], <<"x">>)
          [] \E i \in 1..Len(DigitKeys) : DigitKeys[i] = key ->
                 startScroll(t, QI(presetScrollSpeeds[CHOOSE i \in 1..Len(DigitKeys) :
                                                        DigitKeys[i] = key]), 0, 0)
          [] OTHER -> t

handleScrollEvent(s, yoffset, xpos, ypos) ==
    [changeZoom(s, yoffset, xpos, ypos) EXCEPT !.m_escapePressed = FALSE]

\* variant: a button event leaves m_escapePressed alone
handleMouseButtonKeepsEscape(s, press, pans, x, y) ==
    IF ~press THEN [s EXCEPT !.m_panning = FALSE]
    ELSE IF pans THEN [s EXCEPT !.m_panX = QSub(s.m_x0, x), !.m_panY = QSub(s.m_y0, y),
                                !.m_scrollX = 0, !.m_scrollY = 0, !.m_panning = TRUE]
    ELSE s

\* a button event with the cursor at <<x, y>>: `press` is any action but
\* GLFW_RELEASE, `pans` that the button is the left or the middle one and the
\* user interface does not claim the mouse
handleMouseButtonEvent(s, press, pans, x, y) ==
    IF ~press THEN [s EXCEPT !.m_panning = FALSE, !.m_escapePressed = FALSE]
    ELSE IF pans THEN [s EXCEPT !.m_panX = QSub(s.m_x0, x), !.m_panY = QSub(s.m_y0, y),
                                !.m_scrollX = 0, !.m_scrollY = 0,
                                !.m_panning = TRUE, !.m_escapePressed = FALSE]
    ELSE [s EXCEPT !.m_escapePressed = FALSE]

\* `held`: glfwGetMouseButton still reports the left or the middle button pressed
handleCursorPosEvent(s, held, xpos, ypos) ==
    IF s.m_panning /\ held
    THEN viewCfg([s EXCEPT !.m_x0 = QAdd(xpos, s.m_panX), !.m_y0 = QAdd(ypos, s.m_panY)],
                 <<"f", "s", "x">>)
    ELSE s

handleResizeEvent(s, width, height) ==
    updateViewCenter(computePanelGeometry([s EXCEPT !.m_screenWidth = width,
                                                    !.m_screenHeight = height]), TRUE)

\* uiConfigWindow: one operator per widget (app_ui.cpp:63-141)
uiRadioButton(s, mode) ==
    IF mode = vmFree THEN viewCfg(s, <<"f">>)
    ELSE IF mode = vmPanel THEN viewCfg([s EXCEPT !.m_viewMode = vmPanel], <<"s", "x">>)
    ELSE viewCfg([s EXCEPT !.m_viewMode = mode], <<"s", "a">>)
uiIntegerCheckbox(s) ==
    viewCfg([s EXCEPT !.m_integer = ~(s.m_integer /\ canDoIntegerZoom(s))], <<"s", "a">>)
uiAspectSlider(s, f) ==
    viewCfg(computePanelGeometry([s EXCEPT !.m_aspect = f]), <<"s", "x">>)
uiAspectReset(s) ==
    viewCfg(computePanelGeometry([s EXCEPT !.m_aspect = One]), <<"s", "a">>)
uiMaxCropSlider(s, i) ==
    viewCfg([s EXCEPT !.m_maxCrop = Q(i, 100)], <<"s", "a">>)
uiZoomSlider(s, f) ==
    viewCfg([s EXCEPT !.m_zoom = f], <<"f", "s", "x">>)
uiPosSlider(s, axis, percent) ==
    IF axis = "X"
    THEN viewCfg([s EXCEPT !.m_x0 = QMul(s.m_minX0, Q(percent, 100))], <<"f", "s", "x">>)
    ELSE viewCfg([s EXCEPT !.m_y0 = QMul(s.m_minY0, Q(percent, 100))], <<"f", "s", "x">>)
uiScrollSpeedSlider(s, i) == [s EXCEPT !.m_scrollSpeed = QI(i)]

----------------------------------------------------------------------------
(* The environment: image files, window sizes and the values the user picks *)

\* image files by number: <<width, height>> of the decoded bitmap
DocSize == << <<8, 1>> >>
Docs == 1..Len(DocSize)

\* framebuffer sizes <<width, height>> the window takes
Screens == { <<2, 1>>, <<3, 3>> }

Keys == { "Q", "I", "P", "S", "T", "Z", "F", "LEFT", "RIGHT", "UP", "DOWN", "HOME", "END", "4" }

\* changeZoom has no upper limit; the model stops zooming in at MaxZoom
MaxZoom == 2

\* A session takes at most MaxInputs input events after its image is loaded.
MaxInputs == 3

\* Input is taken between transitions: one handler per pass of the main loop,
\* and none while the easing or the auto-scroll started by the previous one
\* is still under way.
AtRest ==
    /\ app.m_active
    /\ op.name = "frame"
    /\ ~app.m_animate /\ app.m_currentArea = app.m_targetArea
    /\ ~isScrolling(app)

\* The configuration file is written at most once, as the last change of a
\* session: after it the image is reloaded or the program left and started again.
NothingSaved == \A d \in Docs : cfgFile[d] = NoFile

AcceptsInput == AtRest /\ NothingSaved /\ inputs < MaxInputs

\* Without an image updateView returns at once and the handlers only move
\* m_x0, m_y0 and m_zoom: view input is taken while an image is shown.
AcceptsViewInput == AcceptsInput /\ imgValid(app)

Init ==
    /\ \E scr \in Screens :
         app = [FreshApp EXCEPT !.m_screenWidth = scr[1], !.m_screenHeight = scr[2]]
    /\ op = [name |-> "init", arg |-> <<>>]
    /\ cfgFile = [d \in Docs |-> NoFile]
    /\ animFrames = 0
    /\ animStart = FreshApp.m_currentArea
    /\ inputs = 0

\* what every input handler does to the history variables
Handled(name, arg) ==
    /\ op' = [name |-> name, arg |-> arg]
    /\ animFrames' = 0
    /\ animStart' = app.m_currentArea
    /\ inputs' = inputs + 1


KeyEvent ==
    \E key \in Keys, mods \in {"none", "alt"} :
        /\ AtRest
        /\ IF key = "Q" THEN ~NothingSaved
           ELSE NothingSaved /\ inputs < MaxInputs /\ imgValid(app)
        /\ mods = "none" \/ key \in {"LEFT", "RIGHT", "UP", "DOWN"}
        /\ key = "KP_ADD" => QLt(app.m_zoom, QI(MaxZoom))
        /\ app' = handleKeyEvent(app, key, mods)
        /\ Handled("handleKeyEvent", <<key, mods>>)
        /\ UNCHANGED cfgFile

\* Ctrl+S, F6 and the button "Save Settings": saveConfig(); `written` is
\* whether the file could be opened and written
SaveConfig ==
    \E written \in BOOLEAN :
        /\ AcceptsViewInput
        /\ app' = saveConfigStatus([app EXCEPT !.m_escapePressed = FALSE], written)
        /\ cfgFile' = IF app.m_fileName # 0 /\ written
                      THEN [cfgFile EXCEPT ![app.m_fileName] = <<ConfigText(app)>>]
                      ELSE cfgFile
        /\ op' = [name |-> "saveConfig", arg |-> <<written>>]
        /\ UNCHANGED <<animFrames, animStart, inputs>>

\* F5 and the button "Reload Image": loadImage()
ReloadImage ==
    /\ AtRest
    /\ app.m_fileName # 0
    /\ app' = loadImage([app EXCEPT !.m_escapePressed = FALSE], cfgFile[app.m_fileName],
                        DocSize[app.m_fileName][1], DocSize[app.m_fileName][2], TRUE)
    /\ op' = [name |-> "loadImage", arg |-> <<app.m_fileName>>]
    /\ UNCHANGED <<cfgFile, animFrames, animStart, inputs>>

\* handleDropEvent: loadImage(paths[0])
DropEvent ==
    \E doc \in Docs, ok \in BOOLEAN :
        /\ AcceptsInput
        /\ app' = [loadImage([app EXCEPT !.m_fileName = doc], cfgFile[doc],
                             DocSize[doc][1], DocSize[doc][2], ok)
                   EXCEPT !.m_escapePressed = FALSE]
        /\ op' = [name |-> "handleDropEvent", arg |-> <<doc, ok>>]
        /\ animFrames' = 0
        /\ animStart' = app.m_currentArea
        /\ inputs' = 0
        /\ UNCHANGED cfgFile

ScrollEvent ==
    \E yoffset \in {QI(-1), Zero, One}, pos \in {<<0, 0>>} :
        /\ AcceptsViewInput
        /\ QLt(Zero, yoffset) => QLt(app.m_zoom, QI(MaxZoom))
        /\ app' = handleScrollEvent(app, yoffset, QI(pos[1]), QI(pos[2]))
        /\ Handled("handleScrollEvent", <<yoffset, QI(pos[1]), QI(pos[2])>>)
        /\ UNCHANGED cfgFile

ResizeEvent ==
    \E scr \in Screens :
        /\ AcceptsInput
        /\ scr # <<app.m_screenWidth, app.m_screenHeight>>
        /\ app' = handleResizeEvent(app, scr[1], scr[2])
        /\ Handled("handleResizeEvent", scr)
        /\ UNCHANGED cfgFile

UiRadioButton ==
    \E mode \in ViewModes :
        /\ AcceptsViewInput
        /\ mode = vmPanel => canUsePanelMode(app)
        /\ app' = uiRadioButton(app, mode)
        /\ Handled("uiRadioButton", <<mode>>)
        /\ UNCHANGED cfgFile

UiIntegerCheckbox ==
    /\ AcceptsViewInput
    /\ canDoIntegerZoom(app)
    /\ app' = uiIntegerCheckbox(app)
    /\ Handled("uiIntegerCheckbox", <<>>)
    /\ UNCHANGED cfgFile

UiAspectSlider ==
    \E f \in {<<1, 2>>, <<2, 1>>, <<9999, 5000>>} :
        /\ AcceptsViewInput
        /\ app' = uiAspectSlider(app, f)
        /\ Handled("uiAspectSlider", f)
        /\ UNCHANGED cfgFile

UiAspectReset ==
    /\ AcceptsViewInput
    /\ app' = uiAspectReset(app)
    /\ Handled("uiAspectReset", <<>>)
    /\ UNCHANGED cfgFile

UiMaxCropSlider ==
    \E i \in {50} :
        /\ AcceptsViewInput
        /\ app.m_integer
        /\ app' = uiMaxCropSlider(app, i)
        /\ Handled("uiMaxCropSlider", <<i>>)
        /\ UNCHANGED cfgFile

UiZoomSlider ==
    \E f \in {<<3, 2>>} :
        /\ AcceptsViewInput
        /\ app.m_viewMode # vmPanel
        /\ QLe(QMax(app.m_minZoom, <<1, 16>>), f) /\ QLe(f, QI(16))
        /\ app' = uiZoomSlider(app, f)
        /\ Handled("uiZoomSlider", f)
        /\ UNCHANGED cfgFile

UiPosSlider ==
    \E percent \in {50}, axis \in {"X", "Y"} :
        /\ AcceptsViewInput
        /\ app.m_viewMode # vmPanel
        /\ IF axis = "X" THEN QLt(app.m_minX0, Zero) ELSE QLt(app.m_minY0, Zero)
        /\ app' = uiPosSlider(app, axis, percent)
        /\ Handled("uiPosSlider", <<axis, percent>>)
        /\ UNCHANGED cfgFile

UiScrollSpeedSlider ==
    \E i \in {4} :
        /\ AcceptsViewInput
        /\ app' = uiScrollSpeedSlider(app, i)
        /\ Handled("uiScrollSpeedSlider", <<i>>)
        /\ UNCHANGED cfgFile

\* one pass of the main loop without input
Frame ==
    /\ app.m_active
    /\ app' = frame(app)
    /\ op' = [name |-> "frame", arg |-> <<isScrolling(app), app.m_animate>>]
    /\ animFrames' = IF app.m_animate THEN animFrames + 1 ELSE 0
    /\ animStart' = IF app.m_animate THEN animStart ELSE app'.m_currentArea
    /\ UNCHANGED <<cfgFile, inputs>>

\* the program, left with Q, is started again in a window of the same size:
\* run() with the file name of the command line (0: none)
Run ==
    \E doc \in Docs \cup {0} :
        /\ ~app.m_active
        /\ LET s == [FreshApp EXCEPT !.m_screenWidth = app.m_screenWidth,
                                     !.m_screenHeight = app.m_screenHeight,
                                     !.m_fileName = doc]
           IN  app' = IF doc = 0 THEN s
                      ELSE loadImage(s, cfgFile[doc], DocSize[doc][1], DocSize[doc][2], TRUE)
        /\ op' = [name |-> "run", arg |-> <<doc>>]
        /\ animFrames' = 0
        /\ animStart' = FreshApp.m_currentArea
        /\ inputs' = 0
        /\ UNCHANGED cfgFile

Next ==
    \/ KeyEvent
    \/ SaveConfig
    \/ ReloadImage
    \/ DropEvent
    \/ ScrollEvent
    \/ ResizeEvent
    \/ UiRadioButton
    \/ UiIntegerCheckbox
    \/ UiZoomSlider
    \/ UiPosSlider
    \/ UiScrollSpeedSlider
    \/ Frame
    \/ Run

Spec == Init /\ [][Next]_vars

----------------------------------------------------------------------------
(* A session at the configuration window: the pixel aspect and maximum crop
   are set there, the zoom is left to the view mode *)

NextConfig ==
    \/ DropEvent
    \/ ResizeEvent
    \/ UiRadioButton
    \/ UiIntegerCheckbox
    \/ UiAspectSlider
    \/ UiAspectReset
    \/ UiMaxCropSlider
    \/ Frame

SpecConfig == Init /\ [][NextConfig]_vars

----------------------------------------------------------------------------
(* computePanelGeometry over image sizes, pixel aspects and window sizes *)

ComputePanelGeometry ==
    \E w \in {1, 2, 4, 8, 16, 32}, h \in {1, 2, 16}, a \in {<<1, 2>>, One, <<2, 1>>},
       scr \in {<<1, 1>>, <<2, 1>>, <<3, 3>>, <<1, 4>>, <<0, 0>>, <<0, 1>>, <<1, 0>>} :
        /\ app' = computePanelGeometry([app EXCEPT !.m_imgWidth = w, !.m_imgHeight = h,
                                                   !.m_aspect = a,
                                                   !.m_screenWidth = scr[1],
                                                   !.m_screenHeight = scr[2]])
        /\ op' = [name |-> "computePanelGeometry", arg |-> <<w, h, a, scr>>]
        /\ UNCHANGED <<cfgFile, animFrames, animStart, inputs>>

SpecPanel == Init /\ [][ComputePanelGeometry]_vars

----------------------------------------------------------------------------
(* The smooth transition alone: from a start area to a fixed target *)

ZeroArea == <<Zero, Zero, Zero, Zero>>

InitAnim ==
    /\ \E start \in { ZeroArea, FreshApp.m_currentArea, <<QI(8), QI(-2), QI(-7), One>> },
          target \in { FreshApp.m_targetArea,
                       <<One, <<-1, 2>>, <<-1, 2>>, <<1, 4>>>>,
                       <<QI(8), QI(-2), QI(-3), One>>,
                       <<<<1, 4>>, QI(-2), <<-1, 8>>, One>> },
          scr \in Screens :
         /\ app = [FreshApp EXCEPT !.m_screenWidth = scr[1], !.m_screenHeight = scr[2],
                                   !.m_animate = TRUE,
                                   !.m_currentArea = start,
                                   !.m_targetArea = target]
         /\ animStart = start
    /\ op = [name |-> "init", arg |-> <<>>]
    /\ cfgFile = [d \in Docs |-> NoFile]
    /\ animFrames = 0
    /\ inputs = 0

SpecAnim == InitAnim /\ [][Frame]_vars

----------------------------------------------------------------------------
(* A session at the keyboard and the mouse.  The program is started with or
   without an image file on the command line, a .pxv file written earlier may
   lie next to the image, and an event is handled whenever no transition is
   under way: also without an image, and also while the view scrolls. *)

InitInput ==
    /\ \E scr \in {<<2, 1>>, <<3, 3>>, <<8, 2>>}, doc \in Docs \cup {0},
          file \in {NoFile, <<[aspect |-> <<>>, maxcrop |-> <<>>, mode |-> <<vmPanel>>,
                               integer |-> <<>>, zoom |-> <<>>, relx |-> <<>>, rely |-> <<>>,
                               scrollspeed |-> <<>>]>>,
                             <<[aspect |-> <<>>, maxcrop |-> <<>>, mode |-> <<>>,
                               integer |-> <<>>, zoom |-> <<>>, relx |-> <<>>, rely |-> <<>>,
                               scrollspeed |-> <<Zero>>]>>} :
         /\ cfgFile = [d \in Docs |-> file]
         /\ app = IF doc = 0
                  THEN [FreshApp EXCEPT !.m_screenWidth = scr[1], !.m_screenHeight = scr[2]]
                  ELSE loadImage([FreshApp EXCEPT !.m_screenWidth = scr[1],
                                                  !.m_screenHeight = scr[2],
                                                  !.m_fileName = doc],
                                 file, DocSize[doc][1], DocSize[doc][2], TRUE)
    /\ op = [name |-> "run", arg |-> <<>>]
    /\ animFrames = 0
    /\ animStart = FreshApp.m_currentArea
    /\ inputs = 0

\* glfwPollEvents() delivers events between two frames
TakesInput ==
    /\ app.m_active
    /\ ~app.m_animate /\ app.m_currentArea = app.m_targetArea
    /\ inputs < MaxInputs

KeyPress ==
    \E key \in {"ESCAPE", "P", "Z", "T", "S", "KP_ADD", "RIGHT"} :
        /\ TakesInput
        /\ key = "KP_ADD" => QLt(app.m_zoom, QI(MaxZoom))
        /\ app' = handleKeyEvent(app, key, "none")
        /\ Handled("handleKeyEvent", <<key, "none">>)
        /\ UNCHANGED cfgFile

MouseButtonEvent ==
    \E press \in BOOLEAN, pans \in BOOLEAN, pos \in {<<1, 0>>} :
        /\ TakesInput
        /\ app' = handleMouseButtonEvent(app, press, pans, QI(pos[1]), QI(pos[2]))
        /\ Handled("handleMouseButtonEvent", <<press, pans, pos>>)
        /\ UNCHANGED cfgFile

CursorPosEvent ==
    \E held \in BOOLEAN, pos \in {<<0, 0>>} :
        /\ TakesInput
        /\ app' = handleCursorPosEvent(app, held, QI(pos[1]), QI(pos[2]))
        /\ Handled("handleCursorPosEvent", <<held, pos>>)
        /\ UNCHANGED cfgFile

WheelEvent ==
    \E yoffset \in {QI(-1), One}, pos \in {<<0, 0>>} :
        /\ TakesInput
        /\ QLt(Zero, yoffset) => QLt(app.m_zoom, QI(MaxZoom))
        /\ app' = handleScrollEvent(app, yoffset, QI(pos[1]), QI(pos[2]))
        /\ Handled("handleScrollEvent", <<yoffset, QI(pos[1]), QI(pos[2])>>)
        /\ UNCHANGED cfgFile

\* handleDropEvent of a file that may fail to decode
DropFile ==
    \E doc \in Docs, ok \in BOOLEAN :
        /\ TakesInput
        /\ app' = [loadImage([app EXCEPT !.m_fileName = doc], cfgFile[doc],
                             DocSize[doc][1], DocSize[doc][2], ok)
                   EXCEPT !.m_escapePressed = FALSE]
        /\ Handled("handleDropEvent", <<doc, ok>>)
        /\ UNCHANGED cfgFile

NextInput ==
    \/ KeyPress
    \/ MouseButtonEvent
    \/ CursorPosEvent
    \/ WheelEvent
    \/ DropFile
    \/ Frame

SpecInput == InitInput /\ [][NextInput]_vars

----------------------------------------------------------------------------
(* Page Up, Page Down, Ctrl+Home and Ctrl+End in a directory of five entries,
   enumerated in one of three orders *)

\* The directory of the image shown: every entry with its name as character
\* codes ("b", "A", "a", "c", "d"), whether its extension is that of an image
\* and whether it is a directory.  Entry 1 is the file of the command line.
DirFiles ==
    << [name |-> <<98>>, image |-> TRUE, isDir |-> FALSE],
       [name |-> <<65>>, image |-> TRUE, isDir |-> FALSE],
       [name |-> <<97>>, image |-> TRUE, isDir |-> FALSE],
       [name |-> <<99>>, image |-> TRUE, isDir |-> TRUE],
       [name |-> <<100>>, image |-> FALSE, isDir |-> FALSE] >>

\* StringUtil::compareCI: the names compared character by character with
\* upper case folded to lower case; -1, 0 or 1
RECURSIVE compareCI(_, _)
compareCI(a, b) ==
    IF a = <<>> THEN (IF b = <<>> THEN 0 ELSE -1)
    ELSE IF b = <<>> THEN 1
    ELSE LET x == IF Head(a) \in 65..90 THEN Head(a) + 32 ELSE Head(a)
             y == IF Head(b) \in 65..90 THEN Head(b) + 32 ELSE Head(b)
         IN  IF x < y THEN -1
             ELSE IF x > y THEN 1
             ELSE compareCI(Tail(a), Tail(b))

\* the loop over the directory, read in the order of `listing`, from entry i
\* on: the item found (0: none yet); items are numbers of DirFiles
RECURSIVE loadSiblingScan(_, _, _, _, _, _)
loadSiblingScan(listing, i, current, foundItem, absolute, order) ==
    IF i > Len(listing) THEN foundItem
    ELSE loadSiblingScan(listing, i + 1, current,
             IF /\ ~DirFiles[listing[i]].isDir
                /\ DirFiles[listing[i]].image
                /\ compareCI(DirFiles[listing[i]].name, DirFiles[current].name) = order
                /\ \/ foundItem = 0
                   \/ compareCI(DirFiles[listing[i]].name, DirFiles[foundItem].name)
                        = (IF absolute THEN order ELSE -order)
             THEN listing[i] ELSE foundItem,
             absolute, order)

\* loadSibling(absolute, order) and the loadImage of what it found; `files`
\* are the configuration files on disk, by number of the image
loadSibling(s, files, listing, absolute, order) ==
    IF s.m_fileName = 0 THEN s
    ELSE LET foundItem == loadSiblingScan(listing, 1, s.m_fileName, 0, absolute, order)
         IN  IF foundItem = 0 THEN s
             ELSE loadImage([s EXCEPT !.m_fileName = foundItem],
                            IF foundItem \in DOMAIN files THEN files[foundItem] ELSE NoFile,
                            DocSize[1][1], DocSize[1][2], TRUE)

LoadSibling ==
    \E listing \in {<<1, 2, 3, 4, 5>>, <<5, 4, 3, 2, 1>>, <<3, 5, 1, 4, 2>>},
       absolute \in BOOLEAN, order \in {-1, 1} :
        /\ app.m_active /\ inputs < MaxInputs
        /\ app' = loadSibling([app EXCEPT !.m_escapePressed = FALSE], cfgFile,
                              listing, absolute, order)
        /\ Handled("loadSibling", <<absolute, order, listing>>)
        /\ UNCHANGED cfgFile

SpecSibling == InitInput /\ [][LoadSibling]_vars

----------------------------------------------------------------------------
(* updateView over image sizes, window sizes, autofit modes and crop limits *)

UpdateView ==
    \E img \in {<<16, 16>>, <<1001, 16>>, <<2003, 16>>, <<8, 1>>},
       scr \in {<<1024, 768>>, <<2001, 768>>, <<1001, 768>>, <<2, 1>>},
       mode \in {vmFit, vmFill}, integer \in BOOLEAN, crop \in {Zero, <<1, 4>>, Half} :
        /\ app' = updateViewCenter([app EXCEPT !.m_imgWidth = img[1], !.m_imgHeight = img[2],
                                               !.m_screenWidth = scr[1],
                                               !.m_screenHeight = scr[2],
                                               !.m_viewMode = mode,
                                               !.m_integer = integer,
                                               !.m_maxCrop = crop], TRUE)
        /\ op' = [name |-> "updateView", arg |-> <<img, scr, mode, integer, crop>>]
        /\ UNCHANGED <<cfgFile, animFrames, animStart, inputs>>

\* the framebuffer size callback; a minimized window reports 0 x 0
ResizeView ==
    \E scr \in {<<0, 0>>} :
        /\ app' = handleResizeEvent(app, scr[1], scr[2])
        /\ op' = [name |-> "handleResizeEvent", arg |-> scr]
        /\ UNCHANGED <<cfgFile, animFrames, animStart, inputs>>

SpecView == Init /\ [][UpdateView \/ ResizeView]_vars

----------------------------------------------------------------------------
(* Properties of updateView *)

QEq(a, b) == ~QLt(a, b) /\ ~QLt(b, a)
IsWhole(a) == a[1] % a[2] = 0
Autofit(s) == s.m_viewMode \in {vmFit, vmFill}

\* C1: after updateView on a valid image, in every view mode and with integer
\* zoom on or off, zoom >= minZoom -- also after the snapping step that
\* follows the clamp to minZoom.
C1_ZoomAtLeastMinZoom ==
    imgValid(app) => QLe(app.m_minZoom, app.m_zoom)

\* C2 as stated: after updateView with integerZoom set and square pixels on a
\* valid image, zoom or 1/zoom is an integer, whatever the view mode.
C2_IntegerZoomAnyMode ==
    (imgValid(app) /\ app.m_integer /\ isSquarePixels(app))
        => (IsWhole(app.m_zoom) \/ IsWhole(QInv(app.m_zoom)))

\* C2: after updateView with integerZoom set and square pixels on a valid
\* image, in every view mode other than Panel, zoom or 1/zoom is an integer.
C2_IntegerZoomOutsidePanel ==
    (imgValid(app) /\ app.m_integer /\ isSquarePixels(app) /\ app.m_viewMode # vmPanel)
        => (IsWhole(app.m_zoom) \/ IsWhole(QInv(app.m_zoom)))

\* the zoom slider asked for 1.5x with integer scaling on and got 2x
C2_SliderZoomRounded ==
    /\ imgValid(app) /\ app.m_integer /\ isSquarePixels(app)
    /\ app.m_viewMode = vmFree
    /\ op.name = "uiZoomSlider" /\ op.arg = <<3, 2>>
    /\ app.m_zoom = QI(2)

\* the origin of one axis as updateView leaves it
OriginConstrained(pos, minPos, viewSize, screenSize, autofit) ==
    /\ QEq(minPos, QMin(Zero, QSub(screenSize, viewSize)))
    /\ QLe(minPos, Zero)
    /\ IF autofit \/ QLe(Zero, minPos)
       THEN QEq(QAdd(pos, pos), QSub(screenSize, viewSize))
       ELSE QLe(minPos, pos) /\ QLe(pos, Zero)

\* C3: after updateView on a valid image, on each axis minOrigin =
\* min(0, screenSize - viewSize) <= 0, the origin is (screenSize - viewSize)/2
\* in Fit and Fill mode and when the content fits the viewport, and lies in
\* [minOrigin, 0] otherwise; no pan, zoom, Home/End, slider or scroll
\* operation leaves it outside.
C3_OriginConstrained ==
    imgValid(app) =>
        /\ OriginConstrained(app.m_x0, app.m_minX0, app.m_viewWidth,
                             QI(app.m_screenWidth), Autofit(app))
        /\ OriginConstrained(app.m_y0, app.m_minY0, app.m_viewHeight,
                             QI(app.m_screenHeight), Autofit(app))

\* a pan to the right by 64 pixels stopped at the right edge of the image
C3_PanStoppedAtEdge ==
    /\ imgValid(app) /\ app.m_viewMode = vmFree
    /\ op.name = "handleKeyEvent" /\ op.arg = <<"RIGHT", "none">>
    /\ QLt(app.m_minX0, Zero) /\ app.m_x0 = app.m_minX0
    /\ QLt(QI(-64), app.m_minX0)

\* (P - origin) / viewSize is the same before and after
PivotKept(P, pos, viewSize, pos2, viewSize2) ==
    QEq(QMul(QSub(P, pos), viewSize2), QMul(QSub(P, pos2), viewSize))

\* the origin that keeps the pivot needs no clamping: the content is larger
\* than the viewport and that origin lies in [minOrigin, 0]
PivotUnclamped(P, pos, viewSize, viewSize2, screenSize) ==
    LET ideal == QSub(P, QMul(QDiv(QSub(P, pos), viewSize), viewSize2))
    IN  /\ QLt(screenSize, viewSize2)
        /\ QLe(QSub(screenSize, viewSize2), ideal) /\ QLe(ideal, Zero)

\* one mouse wheel step: changeZoom(yoffset, xpos, ypos) keeps the pivot on
\* the unclamped axes whose previous view size exceeds minSize
WheelKeepsPivot(minSize) ==
    (op'.name = "handleScrollEvent" /\ op'.arg[1] # Zero /\ imgValid(app)) =>
        /\ (/\ QLt(minSize, app.m_viewWidth)
            /\ PivotUnclamped(op'.arg[2], app.m_x0, app.m_viewWidth, app'.m_viewWidth,
                              QI(app.m_screenWidth)))
           => PivotKept(op'.arg[2], app.m_x0, app.m_viewWidth, app'.m_x0, app'.m_viewWidth)
        /\ (/\ QLt(minSize, app.m_viewHeight)
            /\ PivotUnclamped(op'.arg[3], app.m_y0, app.m_viewHeight, app'.m_viewHeight,
                              QI(app.m_screenHeight)))
           => PivotKept(op'.arg[3], app.m_y0, app.m_viewHeight, app'.m_y0, app'.m_viewHeight)

\* C4 as stated: changeZoom(direction, P) on a valid image keeps
\* (P - origin) / viewSize on every axis where the origin reconstructed from
\* the pivot needs no clamping.
C4_PivotKeptEveryAxis == [][WheelKeepsPivot(Zero)]_vars

\* C4: changeZoom(direction, P) on a valid image keeps (P - origin) / viewSize
\* on every axis where the origin reconstructed from the pivot needs no
\* clamping and the view was more than one pixel in size before the call.
C4_PivotKeptAboveOnePixel == [][WheelKeepsPivot(One)]_vars

\* a wheel step up with the cursor on the left edge left the left edge of
\* the image where it was, the image now being wider than the window
C4_ZoomedAtLeftEdge ==
    /\ imgValid(app)
    /\ op.name = "handleScrollEvent" /\ op.arg = <<One, Zero, Zero>>
    /\ QLt(QI(app.m_screenWidth), app.m_viewWidth)
    /\ app.m_x0 = Zero
    /\ QLt(One, app.m_zoom)

----------------------------------------------------------------------------
(* Properties of computePanelGeometry *)

AreaLeft(a) == a[3]
AreaRight(a) == QAdd(a[3], a[1])
AreaTop(a) == a[4]
AreaBottom(a) == QAdd(a[4], a[2])
WithinX(a) == QLe(QI(-1), AreaLeft(a)) /\ QLe(AreaRight(a), One)
WithinY(a) == QLe(AreaTop(a), One) /\ QLe(QI(-1), AreaBottom(a))
SpansX(a) == QLe(AreaLeft(a), QI(-1)) /\ QLe(One, AreaRight(a))
SpansY(a) == QLe(One, AreaTop(a)) /\ QLe(AreaBottom(a), QI(-1))

\* C6 as stated: every panel rectangle lies within the viewport, position >= 0
\* and position + size <= screen size on the major and on the minor axis.
C6_PanelsWithinViewport ==
    \A i \in 1..Len(app.m_panelAreas) :
        WithinX(app.m_panelAreas[i]) /\ WithinY(app.m_panelAreas[i])

\* C6: every panel rectangle lies within the viewport on the minor axis; on
\* the major axis it starts at or before the viewport's start and ends at or
\* after its end.
C6_PanelsWithinMinorAxis ==
    \A i \in 1..Len(app.m_panelAreas) :
        IF PanelWide(app)
        THEN WithinY(app.m_panelAreas[i]) /\ SpansX(app.m_panelAreas[i])
        ELSE WithinX(app.m_panelAreas[i]) /\ SpansY(app.m_panelAreas[i])

\* three or more strips, the last of them starting left of the window
C6_ThreeStrips ==
    /\ op.name = "computePanelGeometry"
    /\ Len(app.m_panelAreas) >= 3
    /\ PanelWide(app)
    /\ QLt(AreaLeft(app.m_panelAreas[Len(app.m_panelAreas)]), QI(-1))
    /\ QLt(QI(-1), AreaBottom(app.m_panelAreas[Len(app.m_panelAreas)]))

----------------------------------------------------------------------------
(* Properties of the auto-scroll *)

InRange(pos, minPos) == QLe(minPos, pos) /\ QLe(pos, Zero)

\* C7: at the end of every main-loop frame in which the scroll advance ran,
\* the origin is within [minOrigin, 0] on every axis whose content exceeds
\* the viewport.
C7_ScrollStaysInRange ==
    (op.name = "frame" /\ op.arg[1] /\ imgValid(app)) =>
        /\ QLt(QI(app.m_screenWidth), app.m_viewWidth) => InRange(app.m_x0, app.m_minX0)
        /\ QLt(QI(app.m_screenHeight), app.m_viewHeight) => InRange(app.m_y0, app.m_minY0)

\* the scroll to the right reached the right edge of the image and stopped
C7_ScrollReachedEdge ==
    /\ op.name = "frame" /\ op.arg[1] /\ imgValid(app)
    /\ ~isScrolling(app)
    /\ QLt(app.m_minX0, Zero) /\ app.m_x0 = app.m_minX0

\* The four directions in the order startScroll tests them, as
\* <<scrollX, scrollY>>, and the distance left to scroll in each.
ScrollDirs == << <<0, 1>>, <<1, 0>>, <<0, -1>>, <<-1, 0>> >>
ScrollEligible(s, i) ==
    IF i \in {2, 4} THEN QLt(s.m_minX0, Zero) ELSE QLt(s.m_minY0, Zero)
ScrollDist(s, i) ==
    CASE i = 1 -> QSub(s.m_y0, s.m_minY0)
      [] i = 2 -> QSub(s.m_x0, s.m_minX0)
      [] i = 3 -> QNeg(s.m_y0)
      [] i = 4 -> QNeg(s.m_x0)
ScrollChoice(s) ==
    CHOOSE i \in 1..4 :
        /\ ScrollEligible(s, i)
        /\ \A j \in 1..4 : ScrollEligible(s, j) => QLe(ScrollDist(s, j), ScrollDist(s, i))
        /\ \A j \in 1..(i - 1) :
              ScrollEligible(s, j) => QLt(ScrollDist(s, j), ScrollDist(s, i))

AutoScrollKey(o) ==
    /\ o.name = "handleKeyEvent"
    /\ o.arg[1] \in {"S", "1", "2", "3", "4", "5", "6", "7", "8", "9"}

StartScrollChoosesLongest ==
    (AutoScrollKey(op') /\ ~isScrolling(app) /\ app.m_viewMode # vmPanel) =>
        IF \E i \in 1..4 : ScrollEligible(app, i)
        THEN <<app'.m_scrollX, app'.m_scrollY>> = ScrollDirs[ScrollChoice(app)]
        ELSE /\ ~isScrolling(app')
             /\ app'.m_viewMode = app.m_viewMode

\* C8: startScroll without a direction, while not scrolling and not in Panel
\* mode, takes among the directions whose axis has minOrigin < 0 the one with
\* the greatest distance left, the first one tested when several have it;
\* when no axis is scrollable it sets no direction and leaves the view mode.
C8_StartScrollChoosesLongest == [][StartScrollChoosesLongest]_vars

\* with the image centred horizontally, right and left are equally far and
\* S scrolls to the right
C8_TieScrollsRight ==
    /\ op.name = "handleKeyEvent" /\ op.arg[1] = "S"
    /\ imgValid(app)
    /\ app.m_scrollX = 1 /\ app.m_scrollY = 0
    /\ QLt(app.m_minX0, Zero) /\ QEq(QAdd(app.m_x0, app.m_x0), app.m_minX0)
    /\ QLe(Zero, app.m_minY0)

----------------------------------------------------------------------------
(* Properties of the smooth transition *)

\* C9: with a fixed targetArea (positive scaleX, negative scaleY) and no
\* input, the easing step clears the animating flag after a bounded number of
\* frames -- from current = {0, 0, 0, 0} to target scale 2.0 it is still set
\* after at most 50 of them -- and in the frame after the one that clears it
\* currentArea equals targetArea.
C9_EasingEnds ==
    /\ app.m_animate => animFrames <= 80
    /\ (/\ app.m_animate
        /\ animStart = ZeroArea
        /\ app.m_targetArea = FreshApp.m_targetArea) => animFrames <= 50
    /\ (op.name = "frame" /\ ~op.arg[2]) => app.m_currentArea = app.m_targetArea

\* from {0, 0, 0, 0} to the full window the 51st frame found the distance
\* below the threshold and cleared the flag
C9_ClearedFromZero ==
    /\ op.name = "frame" /\ op.arg[2]
    /\ ~app.m_animate
    /\ animStart = ZeroArea
    /\ app.m_targetArea = FreshApp.m_targetArea
    /\ animFrames = 51
    /\ app.m_currentArea # app.m_targetArea

----------------------------------------------------------------------------
(* Properties of the configuration file *)

\* the program is started on image `doc`, whose configuration file holds
\* what saveConfig writes for the state the program was left in
StartedOnSavedConfig(doc) ==
    /\ op'.name = "run" /\ op'.arg = <<doc>>
    /\ app.m_fileName = doc /\ imgValid(app)
    /\ cfgFile[doc] = <<ConfigText(app)>>

ConfigRoundTrip ==
    \A doc \in Docs :
        StartedOnSavedConfig(doc) =>
            /\ app'.m_targetArea = app.m_targetArea
            /\ app'.m_viewMode = app.m_viewMode
            /\ app'.m_integer = app.m_integer
            /\ QEq(app'.m_aspect, app.m_aspect)
            /\ QEq(app'.m_maxCrop, app.m_maxCrop)
            /\ QEq(app'.m_scrollSpeed, app.m_scrollSpeed)

\* C10: saving the configuration of a reachable view state of a valid image
\* and loading the same image with that file into a fresh ViewState, against
\* the same document and viewport, yields the same targetArea, mode,
\* integerZoom, aspect, maxCrop and scrollSpeed.
C10_ConfigRoundTrip == [][ConfigRoundTrip]_vars


----------------------------------------------------------------------------
(* Properties of the input handlers *)

KeyPressed(key) == op'.name = "handleKeyEvent" /\ op'.arg[1] = key

\* the fields a view entry point acts on
ViewSettings(s) ==
    <<s.m_viewMode, s.m_zoom, s.m_x0, s.m_y0, s.m_scrollX, s.m_scrollY, s.m_animate>>

\* C11: with no valid image loaded, the keys Z, T, S, +, cursor right and P
\* and the mouse wheel leave view mode, zoom, origin, scroll direction,
\* animation flag and target area as they were.
C11_NoImageNoOp ==
    [][(/\ ~imgValid(app)
        /\ \/ op'.name = "handleScrollEvent"
           \/ \E key \in {"Z", "T", "S", "KP_ADD", "RIGHT", "P"} : KeyPressed(key))
       => /\ ViewSettings(app') = ViewSettings(app)
          /\ app'.m_targetArea = app.m_targetArea]_vars

\* C12: P pressed on a valid image for which no panel layout exists leaves
\* view mode, zoom, origin, scroll direction and animation flag as they were.
C12_PanelKeyNoOp ==
    [][(KeyPressed("P") /\ imgValid(app) /\ ~canUsePanelMode(app)
        /\ app.m_viewMode \in {vmFree, vmFit, vmFill})
       => ViewSettings(app') = ViewSettings(app)]_vars

\* C13: after Z on a valid image the view is in Free mode at zoom 1, or, if
\* the image was shown at zoom 1 before, in Fit mode; it is never in Fill mode.
C13_ZTogglesOneToOneAndFit ==
    [][(KeyPressed("Z") /\ imgValid(app))
       => /\ app'.m_viewMode # vmFill
          /\ \/ app'.m_viewMode = vmFree /\ QEq(app'.m_zoom, One)
             \/ ~isZoomed(app) /\ app'.m_viewMode = vmFit]_vars

\* C14: when an input event takes the view mode from Panel to another mode,
\* the animation flag is false once the event is handled.
C14_LeavingPanelSnaps ==
    [][(/\ op'.name \in {"handleKeyEvent", "handleScrollEvent", "handleMouseButtonEvent",
                         "handleCursorPosEvent", "handleResizeEvent", "uiRadioButton",
                         "uiAspectSlider", "uiAspectReset"}
        /\ imgValid(app)
        /\ app.m_viewMode = vmPanel
        /\ app'.m_viewMode # vmPanel)
       => ~app'.m_animate]_vars

\* C15: in every state, the view mode Panel implies that both scroll
\* directions are zero.
C15_PanelNeverScrolls ==
    app.m_viewMode = vmPanel => ~isScrolling(app)

----------------------------------------------------------------------------
(* Properties of loadImage *)

\* what a program just started in the window of s shows for image doc when
\* no configuration file lies next to it
FreshlyLoaded(s, doc) ==
    loadImage([FreshApp EXCEPT !.m_screenWidth = s.m_screenWidth,
                               !.m_screenHeight = s.m_screenHeight,
                               !.m_fileName = doc],
              NoFile, DocSize[doc][1], DocSize[doc][2], TRUE)

DocumentSettings(s) ==
    <<s.m_viewMode, s.m_x0, s.m_y0, s.m_aspect, s.m_integer, s.m_maxCrop, s.m_zoom,
      s.m_scrollSpeed>>

\* C16: an image without configuration file that is dropped on a shown image
\* gets the default view settings: mode, origin, aspect, integer scaling,
\* maximum crop, zoom and scroll speed are those of a fresh start on it.
C16_NewDocumentResets ==
    [][(/\ op'.name = "handleDropEvent" /\ op'.arg[2]
        /\ imgValid(app)
        /\ cfgFile[op'.arg[1]] = NoFile)
       => DocumentSettings(app') = DocumentSettings(FreshlyLoaded(app, op'.arg[1]))]_vars

----------------------------------------------------------------------------
(* Properties of the autofit modes *)

\* updateView has run on a 16x16 image in a 1024x768 window with integer
\* scaling, in Fill mode
FillOf16In1024x768 ==
    /\ op.name = "updateView"
    /\ op.arg[1] = <<16, 16>> /\ op.arg[2] = <<1024, 768>>
    /\ op.arg[3] = vmFill /\ op.arg[4]

\* C17 as stated: for a 16x16 image in a 1024x768 window with integer scaling,
\* Fill mode sets the zoom to the largest integer not above
\* min(1024/16, 768/16) / (1 - maxCrop) = 48 / (1 - maxCrop).
C17_FillZoomFromSmallerRatio ==
    FillOf16In1024x768 =>
        app.m_zoom = QI(QFloor(QDiv(QI(48), QSub(One, app.m_maxCrop))))

\* C17: for a 16x16 image in a 1024x768 window with integer scaling, Fill
\* mode sets the zoom to the largest integer not above
\* max(1024/16, 768/16) / (1 - maxCrop) = 64 / (1 - maxCrop).
C17_FillZoomFromLargerRatio ==
    FillOf16In1024x768 =>
        app.m_zoom = QI(QFloor(QDiv(QI(64), QSub(One, app.m_maxCrop))))

\* the case with a quarter of the image allowed to be cropped: zoom 85
C17_FillWithQuarterCrop ==
    /\ FillOf16In1024x768
    /\ app.m_maxCrop = <<1, 4>>
    /\ app.m_zoom = QI(85)

\* the crop Fit mode may apply: maxCrop with integer zoom in effect, else none
FitCrop(s) == IF wantIntegerZoom(s) THEN s.m_maxCrop ELSE Zero

\* C18: in Fit mode after updateView on a valid image, the view size less
\* the permitted crop is at most the window size on both axes.
C18_FitWithinCrop ==
    (op.name = "updateView" /\ app.m_viewMode = vmFit) =>
        /\ QLe(QMul(app.m_viewWidth, QSub(One, FitCrop(app))), QI(app.m_screenWidth))
        /\ QLe(QMul(app.m_viewHeight, QSub(One, FitCrop(app))), QI(app.m_screenHeight))

----------------------------------------------------------------------------
(* Properties of computePanelGeometry's search *)

\* the count at which the search for the image and the window of s stops
PanelSearch(s) ==
    PanelProbe(IF PanelWide(s) THEN QI(s.m_screenWidth) ELSE QI(s.m_screenHeight),
               IF PanelWide(s) THEN QI(s.m_screenHeight) ELSE QI(s.m_screenWidth),
               IF PanelWide(s) THEN QMul(QI(s.m_imgWidth), s.m_aspect) ELSE QI(s.m_imgHeight),
               IF PanelWide(s) THEN QI(s.m_imgHeight) ELSE QMul(QI(s.m_imgWidth), s.m_aspect),
               1)

\* C19: for every image size, pixel aspect and window size, a window of width
\* or height zero included, the panel-count search of computePanelGeometry
\* comes to an end.
C19_PanelSearchEnds ==
    op.name = "computePanelGeometry" => PanelSearch(app) < MaxProbe

----------------------------------------------------------------------------
(* Properties of the Esc key *)

\* a key other than Esc, a mouse button, the mouse wheel or a dropped file
OtherInput ==
    \/ op'.name \in {"handleMouseButtonEvent", "handleScrollEvent", "handleDropEvent"}
    \/ op'.name = "handleKeyEvent" /\ op'.arg[1] # "ESCAPE"

EscQuitsOnSecondPress ==
    /\ KeyPressed("ESCAPE") =>
          IF app.m_escapePressed THEN ~app'.m_active
          ELSE /\ app'.m_active /\ app'.m_escapePressed
               /\ ~isScrolling(app') /\ ~app'.m_animate
               /\ app'.m_viewMode = app.m_viewMode /\ app'.m_zoom = app.m_zoom
    /\ OtherInput => app'.m_active /\ ~app'.m_escapePressed
    /\ ~KeyPressed("ESCAPE") /\ ~OtherInput =>
          /\ app'.m_active = app.m_active
          /\ app'.m_escapePressed = app.m_escapePressed

\* C20: the program is left through Esc exactly when Esc is pressed with the
\* previous Esc press not followed by another key, a mouse button, the wheel
\* or a dropped file.  The first Esc stops scrolling and animation and keeps
\* the program running; any of those events in between makes the next Esc a
\* first one again, and nothing else does.
C20_EscTwiceQuits ==
    ~app.m_escapePressed /\ [][EscQuitsOnSecondPress]_vars

\* the program left by the second of two Esc presses
C20_LeftByEsc ==
    /\ op.name = "handleKeyEvent" /\ op.arg[1] = "ESCAPE"
    /\ ~app.m_active

----------------------------------------------------------------------------
(* Panel mode and the panel list *)

\* C22: whenever a valid image is loaded, Panel mode implies a non-empty panel
\* list, at the draw step of every frame and after every handler that sets
\* Panel mode or recomputes the panel geometry.
C22_PanelModeHasPanels ==
    imgValid(app) /\ app.m_viewMode = vmPanel => canUsePanelMode(app)

\* Panel mode was asked for with the P key where no layout exists, and the
\* handler left the view in Free mode
C22_PanelRefused ==
    /\ op.name = "handleKeyEvent" /\ op.arg[1] = "P" /\ imgValid(app)
    /\ ~canUsePanelMode(app) /\ app.m_viewMode = vmFree

----------------------------------------------------------------------------
(* The order of the steps of one frame *)

----------------------------------------------------------------------------
(* updateView called again *)

\* what updateView computes: mode, zoom, minimum zoom, origin, minimum origin
\* and target area
ViewResult(s) ==
    <<s.m_viewMode, s.m_zoom, s.m_minZoom, s.m_x0, s.m_y0, s.m_minX0, s.m_minY0, s.m_targetArea>>

\* a second updateView with the arguments of the first changes nothing
Idempotent(s, usePivot, pivotX, pivotY) ==
    ViewResult(updateView(updateView(s, usePivot, pivotX, pivotY), usePivot, pivotX, pivotY))
        = ViewResult(updateView(s, usePivot, pivotX, pivotY))

----------------------------------------------------------------------------
(* The panels as a tiling of the image *)

\* panel k of n (counted from 1) shows the k-th of n equal parts of the
\* image along the major axis: the scaled image is n windows long and starts
\* k - 1 windows before the window
ShowsPart(a, wide, k, n) ==
    IF wide THEN a[1] = QI(2 * n) /\ AreaLeft(a) = QI(-1 - 2 * (k - 1))
    ELSE a[2] = QI(-2 * n) /\ AreaTop(a) = QI(1 + 2 * (k - 1))

\* panel b follows panel a along the minor axis without overlap
Follows(a, b, wide) ==
    IF wide THEN QLe(AreaTop(b), AreaBottom(a)) ELSE QLe(AreaRight(a), AreaLeft(b))

\* C30: the N panels of computePanelGeometry tile the image: panel i shows
\* the scaled-image range [i*dispMajor, (i+1)*dispMajor) of the major axis,
\* with N*dispMajor = viewMajor, and along the minor axis consecutive strips
\* do not overlap and stay inside the viewport.
C30_PanelsTileImage ==
    LET n == Len(app.m_panelAreas)
        wide == PanelWide(app)
    IN  op.name = "computePanelGeometry"
        => /\ \A k \in 1..n :
                 /\ ShowsPart(app.m_panelAreas[k], wide, k, n)
                 /\ IF wide THEN WithinY(app.m_panelAreas[k])
                    ELSE WithinX(app.m_panelAreas[k])
           /\ \A k \in 1..(n - 1) :
                 Follows(app.m_panelAreas[k], app.m_panelAreas[k + 1], wide)

\* a tall image laid out in columns
C30_TallImageInColumns ==
    /\ op.name = "computePanelGeometry"
    /\ ~PanelWide(app)
    /\ Len(app.m_panelAreas) >= 2

----------------------------------------------------------------------------
(* The status saveConfig reports *)

\* C29: saveConfig() reports its outcome: the status type is stError when
\* writing the .pxv file failed and stSuccess only when the file was written.
C29_SaveConfigReportsOutcome ==
    (op.name = "saveConfig" /\ app.m_fileName # 0)
    => app.m_statusType = (IF op.arg[1] THEN stSuccess ELSE stError)

----------------------------------------------------------------------------
(* The zoom stops of changeZoom *)

\* the closest stop in direction zdir, one further from a stop that is near:
\* stop = <<floor(s), nearest stop, whether s is within 0.125 of it>>
ClosestStop(stop, zdir) ==
    IF stop[3] THEN stop[2] + zdir
    ELSE IF zdir > 0 THEN stop[1] + 1 ELSE stop[1]

\* the zoom of that stop, on the scale changeZoom uses in state s
ClosestStopZoom(s, zdir) ==
    IF wantIntegerZoom(s)
    THEN IntegerStopZoom(ClosestStop(IntegerStep(IntegerZoomStep(s.m_zoom),
                                                 QFloor(QAdd(IntegerZoomStep(s.m_zoom), Half))),
                                     zdir))
    ELSE PowStep(ClosestStop(LogStep(s.m_zoom), zdir))

\* C24: changeZoom goes to the closest zoom stop in the requested direction:
\* one further from a stop within 0.125, else to the stop directly above
\* (zoom in) or directly below (zoom out) the current step, skipping none.
C24_ZoomsToClosestStop ==
    [][(op'.name = "handleScrollEvent" /\ op'.arg[1] # Zero /\ imgValid(app))
       => app'.m_zoom =
            updateView(viewCfg([app EXCEPT !.m_zoom =
                                    ClosestStopZoom(app, IF QLt(op'.arg[1], Zero) THEN -1 ELSE 1)],
                               <<"f", "s", "a", "n">>),
                       TRUE, op'.arg[2], op'.arg[3]).m_zoom]_vars

\* C23: no zoom request is wasted: on a valid image, in every view mode and
\* with integer zoom on or off, changeZoom with a positive direction leaves
\* the zoom strictly greater, and with a negative direction strictly smaller
\* unless the zoom was at minZoom already.
C23_NoZoomRequestWasted ==
    [][(op'.name = "handleScrollEvent" /\ imgValid(app))
       => /\ QLt(Zero, op'.arg[1]) => QLt(app.m_zoom, app'.m_zoom)
          /\ QLt(op'.arg[1], Zero) => (QLt(app'.m_zoom, app.m_zoom) \/ app.m_zoom = app.m_minZoom)]_vars

----------------------------------------------------------------------------
(* The end of an auto-scroll *)

\* the edge the scroll on an axis moves toward: dir = 1 lowers the origin
ScrollEdge(dir, minPos) == IF dir = 1 THEN minPos ELSE Zero

\* C25: auto-scroll always comes to rest, for every scroll speed the number
\* keys, the slider or the configuration file can set: a frame of an active
\* scroll on a valid image moves the origin or ends the scroll, and an axis
\* whose scroll ends has its origin at the edge it was moving toward.
C25_ScrollComesToRest ==
    [][(op'.name = "frame" /\ isScrolling(app) /\ imgValid(app))
       => /\ (isScrolling(app') => <<app'.m_x0, app'.m_y0>> # <<app.m_x0, app.m_y0>>)
          /\ (app.m_scrollX # 0 /\ app'.m_scrollX = 0)
                => app'.m_x0 = ScrollEdge(app.m_scrollX, app.m_minX0)
          /\ (app.m_scrollY # 0 /\ app'.m_scrollY = 0)
                => app'.m_y0 = ScrollEdge(app.m_scrollY, app.m_minY0)]_vars

----------------------------------------------------------------------------
(* The zoom factor stays positive *)

\* C28: zoom > 0 in every reachable state with a valid image: a resize that
\* reports a zero viewport width or height never reaches updateView with
\* that size.
C28_ZoomPositive ==
    imgValid(app) => QLt(Zero, app.m_zoom)

----------------------------------------------------------------------------
(* The sibling file that Page Up, Page Down, Ctrl+Home and Ctrl+End load *)

\* entry i comes before entry j in case-insensitive order
NameBefore(i, j) == compareCI(DirFiles[i].name, DirFiles[j].name) = -1

\* the image files on the requested side of the current file
SiblingsOnSide(current, order) ==
    { i \in DOMAIN DirFiles :
        /\ DirFiles[i].image /\ ~DirFiles[i].isDir
        /\ IF order = 1 THEN NameBefore(current, i) ELSE NameBefore(i, current) }

\* no image file of the side lies beyond `found`: nearer to the current file
\* for Page Up and Page Down, farther from it for Ctrl+Home and Ctrl+End
NoneBeyond(found, side, absolute, order) ==
    \A j \in side :
        IF absolute = (order = 1) THEN ~NameBefore(found, j) ELSE ~NameBefore(j, found)

Backwards(listing) == [i \in DOMAIN listing |-> listing[Len(listing) + 1 - i]]

\* C21: what loadSibling loads does not depend on the order of enumeration;
\* it is the image file next to the current one in case-insensitive order
\* (Page Down, Page Up) or the last or first one (Ctrl+End, Ctrl+Home), never
\* a non-image file or a directory, and nothing when no image file lies on
\* the requested side.
C21_SiblingChoiceIgnoresEnumeration ==
    [][(op'.name = "loadSibling" /\ app.m_fileName # 0)
       => LET side == SiblingsOnSide(app.m_fileName, op'.arg[2])
          IN  /\ side = {} => app'.m_fileName = app.m_fileName
              /\ side # {} => /\ app'.m_fileName \in side
                              /\ NoneBeyond(app'.m_fileName, side, op'.arg[1], op'.arg[2])
              /\ app'.m_fileName =
                   loadSibling(app, cfgFile, Backwards(op'.arg[3]),
                               op'.arg[1], op'.arg[2]).m_fileName]_vars

====
